---- MODULE Spec2Model ----
(***************************************************************************)
(* A model of qiling/os/utils.py (class QlOsUtils): the string extractor   *)
(* (read_string, read_wstring, read_cstring), the variadic argument        *)
(* marshaller (va_list), the format string interpreter (__common_printf),  *)
(* the output sinks (sprintf, printf) and the invocation tracer            *)
(* (print_function).                                                       *)
(*                                                                         *)
(* Text (a Python str) is a sequence of code points; bytes are a sequence  *)
(* of integers in 0..255.  Emulated memory is a function from the mapped   *)
(* addresses to bytes; an access that leaves the mapped range fails with a *)
(* memory access error, as ql.mem.read / ql.mem.write do.                  *)
(***************************************************************************)
EXTENDS Integers, Sequences, FiniteSets, TLC

VARIABLES
    mem,      \* ql.mem: the emulated memory, address -> byte
    stdout,   \* ql.os.stdout: the bytes written to it so far
    stats,    \* ql.os.stats: the strings passed to log_string, in order
    log,      \* ql.log: the lines emitted, each with its channel
    verbose,  \* ql.verbose
    arch,     \* ql.arch: bits and pointersize
    call      \* the last call of a QlOsUtils method: its inputs and its outcome

vars == <<mem, stdout, stats, log, verbose, arch, call>>

---------------------------------------------------------------------------
(* Bounds of the model *)

\* Number of mapped bytes: the addresses 0 .. MemSize - 1 are mapped.
MemSize == 4

\* Longest argument list handed to sprintf and printf.
MaxArgs == 2

\* Longest list of processed arguments handed to print_function.
MaxPArgs == 2

---------------------------------------------------------------------------
(* Text *)

Printable ==
    << " ", "!", "\"", "#", "$", "%", "&", "'", "(", ")", "*", "+", ",", "-", ".", "/",
       "0", "1", "2", "3", "4", "5", "6", "7", "8", "9", ":", ";", "<", "=", ">", "?",
       "@", "A", "B", "C", "D", "E", "F", "G", "H", "I", "J", "K", "L", "M", "N", "O",
       "P", "Q", "R", "S", "T", "U", "V", "W", "X", "Y", "Z", "[", "\\", "]", "^", "_",
       "GRAVE", "a", "b", "c", "d", "e", "f", "g", "h", "i", "j", "k", "l", "m", "n", "o",
       "p", "q", "r", "s", "t", "u", "v", "w", "x", "y", "z", "{", "|", "}", "~" >>

\* The code point of a printable ASCII character (space is 32); the grave
\* accent, which a string literal cannot hold, is spelled out.
Ord(c) == 31 + CHOOSE i \in DOMAIN Printable : Printable[i] = c

\* A text literal, written as the tuple of its characters.
L(chars) == [i \in DOMAIN chars |-> Ord(chars[i])]

NUL == << 0 >>

\* The element of a one-element set.  { e(x) : x \in { v } } names the value v
\* as x in e, so that v is computed once however often e uses it.
Only(S) == CHOOSE x \in S : TRUE

RECURSIVE Join(_, _)
\* sep.join(parts)
Join(parts, sep) ==
    IF parts = << >> THEN << >>
    ELSE IF Len(parts) = 1 THEN parts[1]
    ELSE parts[1] \o sep \o Join(Tail(parts), sep)

\* s.startswith(prefix)
StartsWith(s, prefix) ==
    /\ Len(s) >= Len(prefix)
    /\ SubSeq(s, 1, Len(prefix)) = prefix

RECURSIVE Replace(_, _, _)
\* s.replace(old, new) for a non-empty old: left to right, non-overlapping
Replace(s, old, new) ==
    IF Len(s) < Len(old) THEN s
    ELSE IF StartsWith(s, old)
         THEN new \o Replace(SubSeq(s, Len(old) + 1, Len(s)), old, new)
         ELSE << s[1] >> \o Replace(Tail(s), old, new)

RECURSIVE Count(_, _)
\* s.count(c) for a single character c
Count(s, c) ==
    IF s = << >> THEN 0
    ELSE (IF s[1] = c THEN 1 ELSE 0) + Count(Tail(s), c)

RECURSIVE Split(_, _)
\* s.split(c) for a single character c: the segments between the occurrences
Split(s, c) ==
    IF \A i \in DOMAIN s : s[i] # c THEN << s >>
    ELSE LET k == CHOOSE i \in DOMAIN s : s[i] = c /\ \A j \in 1..(i - 1) : s[j] # c
         IN  << SubSeq(s, 1, k - 1) >> \o Split(SubSeq(s, k + 1, Len(s)), c)

RECURSIVE Digits(_, _)
\* the digits of n >= 0 in the given base, most significant first
Digits(n, base) ==
    LET d == n % base
        ch == IF d < 10 THEN Ord("0") + d ELSE Ord("a") + (d - 10)
    IN  IF n < base THEN << ch >> ELSE Append(Digits(n \div base, base), ch)

\* str(n)
Dec(n) == IF n < 0 THEN L(<< "-" >>) \o Digits(-n, 10) ELSE Digits(n, 10)

\* format(n, 'x')
Hex(n) == IF n < 0 THEN L(<< "-" >>) \o Digits(-n, 16) ELSE Digits(n, 16)

\* format(n, '#x')
HexAlt(n) ==
    IF n < 0 THEN L(<< "-", "0", "x" >>) \o Digits(-n, 16)
    ELSE L(<< "0", "x" >>) \o Digits(n, 16)

\* format(n, '#0{width}x'): the sign and the 0x prefix, then zeros up to width
HexAltZeroPad(n, width) ==
    LET sign == IF n < 0 THEN L(<< "-" >>) ELSE << >>
        digits == Digits(IF n < 0 THEN -n ELSE n, 16)
        fill == width - Len(sign) - 2 - Len(digits)
    IN  sign \o L(<< "0", "x" >>)
             \o [i \in 1..(IF fill > 0 THEN fill ELSE 0) |-> Ord("0")]
             \o digits

---------------------------------------------------------------------------
(* Codecs: bytes.decode(errors="ignore") and str.encode *)

IsCont(b) == b >= 128 /\ b <= 191

\* The number of continuation bytes a UTF-8 lead byte asks for; 0 for a byte
\* that cannot start a sequence.
Utf8Need(c) ==
    IF c >= 194 /\ c <= 223 THEN 1
    ELSE IF c >= 224 /\ c <= 239 THEN 2
    ELSE IF c >= 240 /\ c <= 244 THEN 3
    ELSE 0

\* The first continuation byte has a narrower range after some lead bytes
\* (overlong forms, surrogates, code points above 0x10FFFF).
Utf8SecondOk(c, b) ==
    IF c = 224 THEN b >= 160 /\ b <= 191
    ELSE IF c = 237 THEN b >= 128 /\ b <= 159
    ELSE IF c = 240 THEN b >= 144 /\ b <= 191
    ELSE IF c = 244 THEN b >= 128 /\ b <= 143
    ELSE IsCont(b)

RECURSIVE Utf8Good(_, _, _, _)
\* How many of the continuation bytes of the sequence starting at p are there
\* and valid, having seen k of them already.
Utf8Good(bs, p, need, k) ==
    IF k = need \/ p + k + 1 > Len(bs) THEN k
    ELSE LET b == bs[p + k + 1]
             ok == IF k = 0 THEN Utf8SecondOk(bs[p], b) ELSE IsCont(b)
         IN  IF ok THEN Utf8Good(bs, p, need, k + 1) ELSE k

Utf8CodePoint(bs, p, need) ==
    IF need = 1 THEN (bs[p] - 192) * 64 + (bs[p + 1] - 128)
    ELSE IF need = 2
         THEN (bs[p] - 224) * 4096 + (bs[p + 1] - 128) * 64 + (bs[p + 2] - 128)
         ELSE (bs[p] - 240) * 262144 + (bs[p + 1] - 128) * 4096
                  + (bs[p + 2] - 128) * 64 + (bs[p + 3] - 128)

RECURSIVE Utf8DecodeFrom(_, _)
Utf8DecodeFrom(bs, p) ==
    IF p > Len(bs) THEN << >>
    ELSE IF bs[p] < 128 THEN << bs[p] >> \o Utf8DecodeFrom(bs, p + 1)
    ELSE LET need == Utf8Need(bs[p])
             good == Utf8Good(bs, p, need, 0)
         IN  IF need = 0 THEN Utf8DecodeFrom(bs, p + 1)
             ELSE IF good = need
                  THEN << Utf8CodePoint(bs, p, need) >> \o Utf8DecodeFrom(bs, p + need + 1)
                  ELSE Utf8DecodeFrom(bs, p + good + 1)

\* bs.decode(errors="ignore"): UTF-8, the bytes of every invalid or truncated
\* sequence dropped.
DecodeIgnore(bs) == Utf8DecodeFrom(bs, 1)

IsSurrogate(cp) == cp >= 55296 /\ cp <= 57343

Utf8EncodeChar(cp) ==
    IF cp < 128 THEN << cp >>
    ELSE IF cp < 2048 THEN << 192 + (cp \div 64), 128 + (cp % 64) >>
    ELSE IF cp < 65536
         THEN << 224 + (cp \div 4096), 128 + ((cp \div 64) % 64), 128 + (cp % 64) >>
         ELSE << 240 + (cp \div 262144), 128 + ((cp \div 4096) % 64),
                 128 + ((cp \div 64) % 64), 128 + (cp % 64) >>

Utf16leEncodeChar(cp) ==
    IF cp < 65536 THEN << cp % 256, cp \div 256 >>
    ELSE LET v == cp - 65536
             hi == 55296 + (v \div 1024)
             lo == 56320 + (v % 1024)
         IN  << hi % 256, hi \div 256, lo % 256, lo \div 256 >>

RECURSIVE Concat(_)
Concat(seqs) == IF seqs = << >> THEN << >> ELSE seqs[1] \o Concat(Tail(seqs))

\* s.encode(enc) for enc in 'utf-8', 'utf-16le'; a surrogate cannot be encoded
Encode(s, enc) ==
    IF \E i \in DOMAIN s : IsSurrogate(s[i])
    THEN [ok |-> FALSE, bytes |-> << >>]
    ELSE [ok |-> TRUE,
          bytes |-> Concat([i \in DOMAIN s |->
                       IF enc = "utf-16le" THEN Utf16leEncodeChar(s[i])
                       ELSE Utf8EncodeChar(s[i])])]

---------------------------------------------------------------------------
(* Values and errors *)

\* A Python value of an argument list or a return value: an int, a str or None.
IntV(n) == [t |-> "int", n |-> n, s |-> << >>]
StrV(s) == [t |-> "str", n |-> 0, s |-> s]
NoneV == [t |-> "none", n |-> 0, s |-> << >>]

NoErr == [kind |-> "none", msg |-> "none", addr |-> 0, len |-> 0]

\* The error ql.mem raises for an access outside the mapped memory.
MemoryAccessError(access, addr, len) ==
    [kind |-> "MemoryAccessError", msg |-> access, addr |-> addr, len |-> len]

\* A Python exception raised by the interpreter itself: IndexError, TypeError,
\* ValueError, UnicodeEncodeError.
PyError(kind, msg) == [kind |-> kind, msg |-> msg, addr |-> 0, len |-> 0]

\* The levels of ql.verbose.
QL_VERBOSE == [OFF |-> 0, DEFAULT |-> 1, DEBUG |-> 4, DISASM |-> 10]

---------------------------------------------------------------------------
(* The memory subsystem: ql.mem.read, ql.mem.write, ql.mem.read_ptr *)

Addrs == 0..(MemSize - 1)

Mapped(address, size) == address >= 0 /\ address + size <= MemSize

mem_read(m, address, size) ==
    IF Mapped(address, size)
    THEN [err |-> NoErr, data |-> [i \in 1..size |-> m[address + i - 1]]]
    ELSE [err |-> MemoryAccessError("read", address, size), data |-> << >>]

mem_write(m, address, data) ==
    IF Mapped(address, Len(data))
    THEN [err |-> NoErr,
          mem |-> [a \in Addrs |->
                     IF a >= address /\ a < address + Len(data)
                     THEN data[a - address + 1] ELSE m[a]]]
    ELSE [err |-> MemoryAccessError("write", address, Len(data)), mem |-> m]

RECURSIVE LittleEndian(_)
LittleEndian(bs) ==
    IF bs = << >> THEN 0 ELSE bs[1] + 256 * LittleEndian(Tail(bs))

\* ql.mem.read_ptr(address): a pointer-sized little-endian integer
mem_read_ptr(m, address, pointersize) ==
    LET r == mem_read(m, address, pointersize)
    IN  [err |-> r.err, value |-> IF r.err = NoErr THEN LittleEndian(r.data) ELSE 0]

---------------------------------------------------------------------------
(* String extractor *)

RECURSIVE read_string_loop_bytewise(_, _, _, _, _)
\* read_string_loop advancing one byte at a time, whatever the terminator's length.
read_string_loop_bytewise(m, address, terminator, result, reads) ==
    LET charlen == Len(terminator)
        char == mem_read(m, address, charlen)
        done == Append(reads, << address, charlen >>)
    IN  IF char.err # NoErr
        THEN [err |-> char.err, ret |-> << >>, reads |-> done]
        ELSE IF char.data = terminator
             THEN [err |-> NoErr, ret |-> DecodeIgnore(result), reads |-> done]
             ELSE read_string_loop_bytewise(m, address + 1, terminator,
                                            result \o char.data, done)

RECURSIVE read_string_loop(_, _, _, _, _)
\* The loop of read_string: the chunk at address has not been read yet; result
\* holds the chunks accumulated and reads the accesses made, as (address, size).
read_string_loop(m, address, terminator, result, reads) ==
    LET charlen == Len(terminator)
        char == mem_read(m, address, charlen)
        done == Append(reads, << address, charlen >>)
    IN  IF char.err # NoErr
        THEN [err |-> char.err, ret |-> << >>, reads |-> done]
        ELSE IF char.data = terminator
             THEN [err |-> NoErr, ret |-> DecodeIgnore(result), reads |-> done]
             ELSE read_string_loop(m, address + charlen, terminator,
                                   result \o char.data, done)

read_string(m, address, terminator) ==
    read_string_loop(m, address, terminator, << >>, << >>)

\* read_wstring: st is the statistics collector's log before the call
\* read_wstring without the removal of the NUL characters.
read_wstring_unstripped(m, st, address) ==
    Only({ IF r.err # NoErr
           THEN [err |-> r.err, ret |-> << >>, reads |-> r.reads, stats |-> st]
           ELSE [err |-> NoErr, ret |-> r.ret, reads |-> r.reads,
                 stats |-> Append(st, r.ret)] :
           r \in { read_string(m, address, << 0, 0 >>) } })

read_wstring(m, st, address) ==
    Only({ IF r.err # NoErr
           THEN [err |-> r.err, ret |-> << >>, reads |-> r.reads, stats |-> st]
           ELSE Only({ [err |-> NoErr, ret |-> s, reads |-> r.reads,
                        stats |-> Append(st, s)] :
                       s \in { Replace(r.ret, NUL, << >>) } }) :
           r \in { read_string(m, address, << 0, 0 >>) } })

read_cstring(m, st, address) ==
    Only({ IF r.err # NoErr
           THEN [err |-> r.err, ret |-> << >>, reads |-> r.reads, stats |-> st]
           ELSE [err |-> NoErr, ret |-> r.ret, reads |-> r.reads,
                 stats |-> Append(st, r.ret)] :
           r \in { read_string(m, address, << 0 >>) } })

---------------------------------------------------------------------------
(* Variadic argument marshaller *)

RECURSIVE va_list_from(_, _, _, _, _, _, _)
\* The list comprehension of va_list from index i on: values and reads are what
\* the earlier indices produced.
va_list_from(m, pointersize, ptr, count, i, values, reads) ==
    IF i >= count THEN [err |-> NoErr, values |-> values, reads |-> reads]
    ELSE LET at == ptr + i * pointersize
             r == mem_read_ptr(m, at, pointersize)
             done == Append(reads, << at, pointersize >>)
         IN  IF r.err # NoErr
             THEN [err |-> r.err, values |-> << >>, reads |-> done]
             ELSE va_list_from(m, pointersize, ptr, count, i + 1,
                               Append(values, r.value), done)

\* va_list counting a literal "%%" as no marker at all.
va_list_literal_aware(m, pointersize, format, ptr) ==
    va_list_from(m, pointersize, ptr,
                 Count(Replace(format, L(<< "%", "%" >>), << >>), Ord("%")),
                 0, << >>, << >>)

va_list(m, pointersize, format, ptr) ==
    va_list_from(m, pointersize, ptr, Count(format, Ord("%")), 0, << >>, << >>)

---------------------------------------------------------------------------
(* Format string interpreter *)

\* A segment taken to ask for a string when it holds an "s" anywhere.
is_string_spec_anywhere(f) == \E k \in DOMAIN f : f[k] = Ord("s")

\* f.startswith("s"): the segment asks for a string
is_string_spec(f) == StartsWith(f, L(<< "s" >>))

RECURSIVE resolve_strings_lenient(_, _, _, _, _, _, _)
\* resolve_strings catching the error of a failed read and going on with an
\* empty string in its place.
resolve_strings_lenient(m, wstring, fmtstr, i, args, st, reads) ==
    IF i >= Len(fmtstr)
    THEN [err |-> NoErr, args |-> args, stats |-> st, reads |-> reads]
    ELSE IF ~is_string_spec(fmtstr[i + 1])
    THEN resolve_strings_lenient(m, wstring, fmtstr, i + 1, args, st, reads)
    ELSE IF i >= Len(args)
    THEN [err |-> PyError("IndexError", "list index out of range"),
          args |-> args, stats |-> st, reads |-> reads]
    ELSE Only({ resolve_strings_lenient(m, wstring, fmtstr, i + 1,
                                        [args EXCEPT ![i + 1] = StrV(r.ret)],
                                        r.stats, reads \o r.reads) :
                r \in { IF wstring THEN read_wstring(m, st, args[i + 1].n)
                        ELSE read_cstring(m, st, args[i + 1].n) } })

RECURSIVE resolve_strings(_, _, _, _, _, _, _)
\* The loop of __common_printf over enumerate(fmtstr), from index i on: every
\* segment that starts with "s" has args[i] replaced by the string read at the
\* address args[i] holds.  args[i] beyond the end of args raises IndexError.
resolve_strings(m, wstring, fmtstr, i, args, st, reads) ==
    IF i >= Len(fmtstr)
    THEN [err |-> NoErr, args |-> args, stats |-> st, reads |-> reads]
    ELSE IF ~is_string_spec(fmtstr[i + 1])
    THEN resolve_strings(m, wstring, fmtstr, i + 1, args, st, reads)
    ELSE IF i >= Len(args)
    THEN [err |-> PyError("IndexError", "list index out of range"),
          args |-> args, stats |-> st, reads |-> reads]
    ELSE Only({ IF r.err # NoErr
                THEN [err |-> r.err, args |-> args, stats |-> r.stats,
                      reads |-> reads \o r.reads]
                ELSE resolve_strings(m, wstring, fmtstr, i + 1,
                                     [args EXCEPT ![i + 1] = StrV(r.ret)],
                                     r.stats, reads \o r.reads) :
                r \in { IF wstring THEN read_wstring(m, st, args[i + 1].n)
                        ELSE read_cstring(m, st, args[i + 1].n) } })

\* str(v) of an argument, as the conversion %s renders it
Str(v) == IF v.t = "int" THEN Dec(v.n) ELSE v.s

RECURSIVE SkipFlags(_, _)
\* The first position from p on that holds no conversion flag "#".
SkipFlags(fmt, p) ==
    IF p <= Len(fmt) /\ fmt[p] = Ord("#") THEN SkipFlags(fmt, p + 1) ELSE p

LengthModifiers == { Ord("h"), Ord("l"), Ord("L") }

RECURSIVE py_format_from(_, _, _, _, _)
\* The % operator of str on a tuple, as CPython's unicode_format does it, from
\* position pos of fmt on, argidx arguments consumed and out produced so far.
\* A directive is "%", flags, one optional length modifier and the conversion;
\* "%%" is a literal percent sign.  The conversions s, d, i, u and x and the flag
\* "#" are interpreted; width and precision do not occur in Formats.
py_format_from(fmt, pos, args, argidx, out) ==
    IF pos > Len(fmt)
    THEN IF argidx < Len(args)
         THEN [err |-> PyError("TypeError",
                               "not all arguments converted during string formatting"),
               out |-> << >>]
         ELSE [err |-> NoErr, out |-> out]
    ELSE IF fmt[pos] # Ord("%")
    THEN py_format_from(fmt, pos + 1, args, argidx, Append(out, fmt[pos]))
    ELSE IF pos + 1 > Len(fmt)
    THEN [err |-> PyError("ValueError", "incomplete format"), out |-> << >>]
    ELSE IF fmt[pos + 1] = Ord("%")
    THEN py_format_from(fmt, pos + 2, args, argidx, Append(out, Ord("%")))
    ELSE LET flags == SkipFlags(fmt, pos + 1)
             alt == flags > pos + 1
             at == IF flags <= Len(fmt) /\ fmt[flags] \in LengthModifiers
                   THEN flags + 1 ELSE flags
         IN  IF at > Len(fmt)
             THEN [err |-> PyError("ValueError", "incomplete format"), out |-> << >>]
             ELSE IF argidx >= Len(args)
             THEN [err |-> PyError("TypeError", "not enough arguments for format string"),
                   out |-> << >>]
             ELSE LET conv == fmt[at]
                      v == args[argidx + 1]
                  IN  IF conv = Ord("s")
                      THEN py_format_from(fmt, at + 1, args, argidx + 1, out \o Str(v))
                      ELSE IF conv \in { Ord("d"), Ord("i"), Ord("u") }
                      THEN IF v.t # "int"
                           THEN [err |-> PyError("TypeError", "a real number is required"),
                                 out |-> << >>]
                           ELSE py_format_from(fmt, at + 1, args, argidx + 1,
                                               out \o Dec(v.n))
                      ELSE IF conv = Ord("x")
                      THEN IF v.t # "int"
                           THEN [err |-> PyError("TypeError", "an integer is required"),
                                 out |-> << >>]
                           ELSE py_format_from(fmt, at + 1, args, argidx + 1,
                                    out \o (IF alt THEN HexAlt(v.n) ELSE Hex(v.n)))
                      ELSE [err |-> PyError("ValueError", "unsupported format character"),
                            out |-> << >>]

RECURSIVE Directives(_, _)
\* The number of directives of fmt from position pos on that take an argument:
\* every "%" that starts a directive other than the literal "%%".
Directives(fmt, pos) ==
    IF pos > Len(fmt) THEN 0
    ELSE IF fmt[pos] # Ord("%") THEN Directives(fmt, pos + 1)
    ELSE IF pos = Len(fmt) THEN 0
    ELSE IF fmt[pos + 1] = Ord("%") THEN Directives(fmt, pos + 2)
    ELSE 1 + Directives(fmt, pos + 2)

\* The % operator dropping the arguments the format has no directive for.
py_format_truncating(fmt, args) ==
    LET n == Directives(fmt, 1)
    IN  py_format_from(fmt, 1, SubSeq(args, 1, IF Len(args) < n THEN Len(args) ELSE n),
                       0, << >>)

\* format % tuple(args)
py_format(fmt, args) == py_format_from(fmt, 1, args, 0, << >>)

\* __common_printf: the %s resolution pass, the two normalisations of the
\* format, the substitution.  resolved tells whether the pass completed.
common_printf(m, st, format, args, wstring) ==
    LET fmtstr == Tail(Split(format, Ord("%")))
        out1 == Replace(format, L(<< "%", "l", "l", "x" >>), L(<< "%", "x" >>))
        out2 == Replace(out1, L(<< "%", "p" >>), L(<< "%", "#", "x" >>))
    IN  Only({ IF pass.err # NoErr
               THEN [err |-> pass.err, out |-> << >>, args |-> pass.args,
                     stats |-> pass.stats, reads |-> pass.reads, resolved |-> FALSE]
               ELSE Only({ [err |-> sub.err, out |-> sub.out, args |-> pass.args,
                            stats |-> pass.stats, reads |-> pass.reads,
                            resolved |-> TRUE] :
                           sub \in { py_format(out2, pass.args) } }) :
               pass \in { resolve_strings(m, wstring, fmtstr, 0, args, st, << >>) } })

---------------------------------------------------------------------------
(* Output sinks *)

\* What a sink leaves behind when it raises e after the interpreter returned r:
\* nothing is written.
sink_raises(e, r, m, so) ==
    [err |-> e, count |-> 0, out |-> r.out, args |-> r.args,
     resolved |-> r.resolved, reads |-> r.reads, writes |-> << >>,
     mem |-> m, stdout |-> so, stats |-> r.stats]

\* sprintf returning the number of bytes written instead of characters.
sprintf_byte_count(m, so, st, buff, format, args, wstring) ==
    Only({ LET enc == IF wstring THEN "utf-16le" ELSE "utf-8"
               data == Encode(r.out \o NUL, enc)
               w == mem_write(m, buff, data.bytes)
           IN  IF r.err # NoErr THEN sink_raises(r.err, r, m, so)
               ELSE IF ~data.ok
               THEN sink_raises(PyError("UnicodeEncodeError", "surrogates not allowed"),
                                r, m, so)
               ELSE IF w.err # NoErr THEN sink_raises(w.err, r, m, so)
               ELSE [err |-> NoErr, count |-> Len(data.bytes), out |-> r.out,
                     args |-> r.args, resolved |-> r.resolved, reads |-> r.reads,
                     writes |-> << [address |-> buff, data |-> data.bytes] >>,
                     mem |-> w.mem, stdout |-> so, stats |-> r.stats] :
           r \in { common_printf(m, st, format, args, wstring) } })

\* printf writing its text to memory at address 0 as well.
printf_to_memory(m, so, st, format, args, wstring) ==
    Only({ LET data == Encode(r.out, "utf-8")
               w == mem_write(m, 0, data.bytes)
           IN  IF r.err # NoErr THEN sink_raises(r.err, r, m, so)
               ELSE IF ~data.ok
               THEN sink_raises(PyError("UnicodeEncodeError", "surrogates not allowed"),
                                r, m, so)
               ELSE [err |-> NoErr, count |-> Len(r.out), out |-> r.out,
                     args |-> r.args, resolved |-> r.resolved, reads |-> r.reads,
                     writes |-> << >>,
                     mem |-> w.mem, stdout |-> so \o data.bytes, stats |-> r.stats] :
           r \in { common_printf(m, st, format, args, wstring) } })

\* sprintf: so is the standard output so far.  The result holds the state the
\* call leaves behind and what it returns (count) or raises (err).
sprintf(m, so, st, buff, format, args, wstring) ==
    Only({ LET enc == IF wstring THEN "utf-16le" ELSE "utf-8"
               data == Encode(r.out \o NUL, enc)
               w == mem_write(m, buff, data.bytes)
           IN  IF r.err # NoErr THEN sink_raises(r.err, r, m, so)
               ELSE IF ~data.ok
               THEN sink_raises(PyError("UnicodeEncodeError", "surrogates not allowed"),
                                r, m, so)
               ELSE IF w.err # NoErr THEN sink_raises(w.err, r, m, so)
               ELSE [err |-> NoErr, count |-> Len(r.out), out |-> r.out,
                     args |-> r.args, resolved |-> r.resolved, reads |-> r.reads,
                     writes |-> << [address |-> buff, data |-> data.bytes] >>,
                     mem |-> w.mem, stdout |-> so, stats |-> r.stats] :
           r \in { common_printf(m, st, format, args, wstring) } })

printf(m, so, st, format, args, wstring) ==
    Only({ LET data == Encode(r.out, "utf-8")
           IN  IF r.err # NoErr THEN sink_raises(r.err, r, m, so)
               ELSE IF ~data.ok
               THEN sink_raises(PyError("UnicodeEncodeError", "surrogates not allowed"),
                                r, m, so)
               ELSE [err |-> NoErr, count |-> Len(r.out), out |-> r.out,
                     args |-> r.args, resolved |-> r.resolved, reads |-> r.reads,
                     writes |-> << >>,
                     mem |-> m, stdout |-> so \o data.bytes, stats |-> r.stats] :
           r \in { common_printf(m, st, format, args, wstring) } })

---------------------------------------------------------------------------
(* Invocation tracer *)

ELLIPSIS_PREF == L(<< "_", "_", "q", "l", "v", "a", "_" >>)

\* __assign_arg: the name of a variadic argument is blanked, and an argument
\* without a name is rendered as its value alone.
assign_arg(name, value) ==
    LET shown == IF StartsWith(name, ELLIPSIS_PREF) THEN << >> ELSE name
    IN  IF shown # << >> THEN shown \o L(<< " ", "=", " " >>) \o value ELSE value

\* print_function with the address prefix only above the DEBUG level.
print_function_above_debug(level, bits, address, fname, pargs, ret, passthru) ==
    LET name == IF StartsWith(fname, L(<< "h", "o", "o", "k", "_" >>))
                THEN SubSeq(fname, 6, Len(fname)) ELSE fname
        fargs == Join([i \in DOMAIN pargs |-> assign_arg(pargs[i][1], pargs[i][2])],
                      L(<< ",", " " >>))
        shown == IF ret.t = "int" THEN HexAlt(ret.n) ELSE ret.s
        fret == IF ret.t # "none" THEN L(<< " ", "=", " " >>) \o shown ELSE << >>
        fpass == IF passthru THEN L(<< " ", "(", "P", "A", "S", "S", "T", "H", "R", "U", ")" >>) ELSE << >>
        faddr == IF level > QL_VERBOSE.DEBUG
                 THEN HexAltZeroPad(address, bits \div 4 + 2) \o L(<< ":", " " >>)
                 ELSE << >>
    IN  [channel |-> IF level >= QL_VERBOSE.DEBUG THEN "debug" ELSE "info",
         line |-> faddr \o name \o L(<< "(" >>) \o fargs \o L(<< ")" >>) \o fret \o fpass]

\* print_function: level is ql.verbose and bits is ql.arch.bits.  The result is
\* the line and the channel of ql.log it goes to.
print_function(level, bits, address, fname, pargs, ret, passthru) ==
    LET name == IF StartsWith(fname, L(<< "h", "o", "o", "k", "_" >>))
                THEN SubSeq(fname, 6, Len(fname)) ELSE fname
        fargs == Join([i \in DOMAIN pargs |-> assign_arg(pargs[i][1], pargs[i][2])],
                      L(<< ",", " " >>))
        shown == IF ret.t = "int" THEN HexAlt(ret.n) ELSE ret.s
        fret == IF ret.t # "none" THEN L(<< " ", "=", " " >>) \o shown ELSE << >>
        fpass == IF passthru THEN L(<< " ", "(", "P", "A", "S", "S", "T", "H", "R", "U", ")" >>) ELSE << >>
        faddr == IF level >= QL_VERBOSE.DEBUG
                 THEN HexAltZeroPad(address, bits \div 4 + 2) \o L(<< ":", " " >>)
                 ELSE << >>
    IN  [channel |-> IF level >= QL_VERBOSE.DEBUG THEN "debug" ELSE "info",
         line |-> faddr \o name \o L(<< "(" >>) \o fargs \o L(<< ")" >>) \o fret \o fpass]

---------------------------------------------------------------------------
(* Inputs *)

\* The byte values memory is filled with: NUL, "h", "i" and 0xE9, which is no
\* valid UTF-8 on its own and is the low byte of U+00E9 in UTF-16LE.
Bytes == { 0, Ord("h"), Ord("i"), 233 }

\* The byte values the formatting calls find in memory: NUL, "h" and "i".
TextBytes == { 0, Ord("h"), Ord("i") }

Terminators == { << 0 >>, << 0, 0 >> }

\* Addresses handed to the readers: every mapped one and the first unmapped one.
ReadAddrs == 0..MemSize

\* ql.arch of a 16-bit (8086), a 32-bit and a 64-bit architecture.
Archs ==
    { [bits |-> 16, pointersize |-> 2],
      [bits |-> 32, pointersize |-> 4],
      [bits |-> 64, pointersize |-> 8] }

\* Pointers are read on the 16-bit architecture: a pointer of MemSize bytes or
\* more cannot be read at all, and its value would not fit the model's integers.
PtrArchs == { a \in Archs : a.pointersize < MemSize /\ a.bits < 32 }

Formats ==
    { << >>,
      << 233 >>,
      L(<< "%" >>),
      L(<< "%", "%" >>),
      L(<< "%", "s" >>),
      L(<< "%", "d" >>),
      L(<< "%", "p" >>),
      L(<< "%", "l", "s" >>),
      L(<< "%", "%", "s" >>),
      L(<< "%", "s", "%", "s" >>),
      L(<< "%", "d", "%", "s" >>),
      L(<< "%", "l", "l", "x" >>) }

\* The raw values of an argument list: two mapped addresses and an unmapped one.
ArgVals == { 0, 1, MemSize }

RECURSIVE SeqsUpTo(_, _)
\* The sequences of at most n elements of S.
SeqsUpTo(S, n) ==
    IF n = 0 THEN { << >> }
    ELSE LET shorter == SeqsUpTo(S, n - 1)
         IN  shorter \cup { Append(q, x) : q \in shorter, x \in S }

ArgLists == SeqsUpTo({ IntV(v) : v \in ArgVals }, MaxArgs)

\* The argument list va_list marshals for a format from the pointer ptr, when
\* it can.
VaListArgs(m, pointersize, format, ptr) ==
    UNION { IF r.err = NoErr THEN { [i \in DOMAIN r.values |-> IntV(r.values[i])] }
            ELSE { } :
            r \in { va_list(m, pointersize, format, ptr) } }

\* The buffers sprintf writes to: the start and the middle of the memory.
BuffAddrs == { 0, MemSize \div 2 }

\* The inputs of print_function.
TraceAddresses == { 16, 16400 }

FNames == { L(<< "h", "o", "o", "k", "_", "s", "t", "r", "c", "p", "y" >>),
            L(<< "s", "t", "r", "c", "p", "y" >>),
            L(<< "h", "o", "o", "k", "_" >>) }

PArgNames == { L(<< "d", "s", "t" >>), L(<< "_", "_", "q", "l", "v", "a", "_", "0" >>), << >> }

PArgValues == { L(<< "0", "x", "2", "0", "0", "0" >>), L(<< "0", "x", "3", "0", "0", "0" >>) }

PArgLists == SeqsUpTo(PArgNames \X PArgValues, MaxPArgs)

Rets == { NoneV, IntV(5), IntV(-1), StrV(L(<< "o", "k" >>)) }

Verbosities == { QL_VERBOSE.OFF, QL_VERBOSE.DEFAULT, QL_VERBOSE.DEBUG, QL_VERBOSE.DISASM }

---------------------------------------------------------------------------
(* The calls *)

\* No call made yet; every call record has these fields.
NoCall ==
    [op |-> "none", address |-> 0, terminator |-> << >>, format |-> << >>,
     args |-> << >>, wstring |-> FALSE,
     err |-> NoErr, ret |-> << >>, values |-> << >>, reads |-> << >>,
     out |-> << >>, count |-> 0, argsOut |-> << >>, resolved |-> FALSE,
     writes |-> << >>,
     fname |-> << >>, pargs |-> << >>, retarg |-> NoneV, passthru |-> FALSE]

ReadString ==
    /\ call.op = "none"
    /\ \E address \in ReadAddrs, terminator \in Terminators :
          \E r \in { read_string(mem, address, terminator) } :
              call' = [op |-> "read_string", address |-> address,
                       terminator |-> terminator,
                       err |-> r.err, ret |-> r.ret, reads |-> r.reads] @@ NoCall
    /\ UNCHANGED << mem, stdout, stats, log, verbose, arch >>

ReadWString ==
    /\ call.op = "none"
    /\ \E address \in ReadAddrs :
          \E r \in { read_wstring(mem, stats, address) } :
              /\ call' = [op |-> "read_wstring", address |-> address,
                          err |-> r.err, ret |-> r.ret, reads |-> r.reads] @@ NoCall
              /\ stats' = r.stats
    /\ UNCHANGED << mem, stdout, log, verbose, arch >>

ReadCString ==
    /\ call.op = "none"
    /\ \E address \in ReadAddrs :
          \E r \in { read_cstring(mem, stats, address) } :
              /\ call' = [op |-> "read_cstring", address |-> address,
                          err |-> r.err, ret |-> r.ret, reads |-> r.reads] @@ NoCall
              /\ stats' = r.stats
    /\ UNCHANGED << mem, stdout, log, verbose, arch >>

VaList ==
    /\ call.op = "none"
    /\ \E format \in Formats, ptr \in ReadAddrs :
          \E r \in { va_list(mem, arch.pointersize, format, ptr) } :
              call' = [op |-> "va_list", address |-> ptr, format |-> format,
                       err |-> r.err, values |-> r.values, reads |-> r.reads] @@ NoCall
    /\ UNCHANGED << mem, stdout, stats, log, verbose, arch >>

\* The extractor and the marshaller, on every memory content.
InitExtract ==
    /\ mem \in [Addrs -> Bytes]
    /\ arch \in PtrArchs
    /\ stdout = << >>
    /\ stats = << >>
    /\ log = << >>
    /\ verbose = QL_VERBOSE.DEFAULT
    /\ call = NoCall

NextExtract == ReadString \/ ReadWString \/ ReadCString \/ VaList

SpecExtract == InitExtract /\ [][NextExtract]_vars

Sprintf ==
    /\ call.op = "none"
    /\ \E buff \in BuffAddrs, format \in Formats, wstring \in BOOLEAN :
          \E args \in ArgLists \cup VaListArgs(mem, arch.pointersize, format, 0) :
             \E r \in { sprintf(mem, stdout, stats, buff, format, args, wstring) } :
                 /\ call' = [op |-> "sprintf", address |-> buff, format |-> format,
                             args |-> args, wstring |-> wstring,
                             err |-> r.err, count |-> r.count, out |-> r.out,
                             argsOut |-> r.args, resolved |-> r.resolved,
                             reads |-> r.reads, writes |-> r.writes] @@ NoCall
                 /\ mem' = r.mem
                 /\ stdout' = r.stdout
                 /\ stats' = r.stats
    /\ UNCHANGED << log, verbose, arch >>

Printf ==
    /\ call.op = "none"
    /\ \E format \in Formats, wstring \in BOOLEAN :
          \E args \in ArgLists \cup VaListArgs(mem, arch.pointersize, format, 0) :
             \E r \in { printf(mem, stdout, stats, format, args, wstring) } :
                 /\ call' = [op |-> "printf", format |-> format,
                             args |-> args, wstring |-> wstring,
                             err |-> r.err, count |-> r.count, out |-> r.out,
                             argsOut |-> r.args, resolved |-> r.resolved,
                             reads |-> r.reads, writes |-> r.writes] @@ NoCall
                 /\ mem' = r.mem
                 /\ stdout' = r.stdout
                 /\ stats' = r.stats
    /\ UNCHANGED << log, verbose, arch >>

\* The interpreter and the sinks, on every memory content made of text bytes.
InitFormat ==
    /\ mem \in [Addrs -> TextBytes]
    /\ arch \in PtrArchs
    /\ stdout = << >>
    /\ stats = << >>
    /\ log = << >>
    /\ verbose = QL_VERBOSE.DEFAULT
    /\ call = NoCall

NextFormat == Sprintf \/ Printf

SpecFormat == InitFormat /\ [][NextFormat]_vars

PrintFunction ==
    /\ call.op = "none"
    /\ \E address \in TraceAddresses, fname \in FNames, pargs \in PArgLists,
          ret \in Rets, passthru \in BOOLEAN :
          /\ call' = [op |-> "print_function", address |-> address, fname |-> fname,
                      pargs |-> pargs, retarg |-> ret, passthru |-> passthru] @@ NoCall
          /\ log' = Append(log, print_function(verbose, arch.bits, address, fname,
                                               pargs, ret, passthru))
    /\ UNCHANGED << mem, stdout, stats, verbose, arch >>

\* The tracer, at every verbosity and on every architecture; it does not use
\* the memory, which is left as freshly mapped.
InitTrace ==
    /\ mem = [a \in Addrs |-> 0]
    /\ arch \in Archs
    /\ stdout = << >>
    /\ stats = << >>
    /\ log = << >>
    /\ verbose \in Verbosities
    /\ call = NoCall

NextTrace == PrintFunction

SpecTrace == InitTrace /\ [][NextTrace]_vars

---------------------------------------------------------------------------
(* Claims about the extractor and the marshaller, under SpecExtract *)

\* The n bytes of memory from address on.
BytesAt(m, address, n) == [i \in 1..n |-> m[address + i - 1]]

\* The byte sequence t occurs somewhere in b.
Contains(b, t) ==
    \E i \in 1..(Len(b) - Len(t) + 1) : SubSeq(b, i, i + Len(t) - 1) = t

\* Memory holds, at address, n bytes that contain no terminator, immediately
\* followed by the terminator t.
HoldsString(m, address, n, t) ==
    /\ Mapped(address, n + Len(t))
    /\ BytesAt(m, address + n, Len(t)) = t
    /\ ~Contains(BytesAt(m, address, n), t)

\* read_string returned the n bytes at its address decoded leniently, and read
\* nothing beyond their terminator.
ReturnsString(n) ==
    /\ call.err = NoErr
    /\ call.ret = DecodeIgnore(BytesAt(mem, call.address, n))
    /\ \A k \in DOMAIN call.reads :
          call.reads[k][1] + call.reads[k][2]
             <= call.address + n + Len(call.terminator)

\* C1: for every byte sequence b of any length, odd ones included, that does
\* not contain the terminator, when memory holds b followed by the terminator
\* at the address, read_string returns b decoded leniently and reads nothing
\* beyond the terminator.
C1_AnyLength ==
    call.op = "read_string" =>
        \A n \in 0..MemSize :
            HoldsString(mem, call.address, n, call.terminator) => ReturnsString(n)

\* C1, amended: the same for every b whose length is a multiple of the
\* terminator's length (every b for read_cstring, the b of even length for
\* read_wstring).
C1_WholeChunks ==
    call.op = "read_string" =>
        \A n \in 0..MemSize :
            ( /\ n % Len(call.terminator) = 0
              /\ HoldsString(mem, call.address, n, call.terminator) )
            => ReturnsString(n)

\* A two-byte terminator after two bytes, the first of which cannot be decoded:
\* the text returned is the second byte alone.
C1_Witness ==
    /\ call.op = "read_string"
    /\ call.terminator = << 0, 0 >>
    /\ HoldsString(mem, call.address, 2, call.terminator)
    /\ mem[call.address] = 233
    /\ call.ret = L(<< "h" >>)
    /\ Len(call.reads) = 2

\* The positions of the "%" characters of a format.
PercentPositions(format) == { p \in DOMAIN format : format[p] = Ord("%") }

\* The pointer-sized little-endian value memory holds at address.
PointerAt(m, address, pointersize) ==
    LittleEndian(BytesAt(m, address, pointersize))

\* C4: va_list returns as many values as the format has "%" characters, "%%"
\* counting as two, and the i-th value is the pointer-sized value read at
\* ptr + i * pointersize, the reads being made in that order.
C4_VaListValues ==
    (call.op = "va_list" /\ call.err = NoErr) =>
        /\ Len(call.values) = Cardinality(PercentPositions(call.format))
        /\ Len(call.reads) = Len(call.values)
        /\ \A i \in 0..(Len(call.values) - 1) :
              /\ call.reads[i + 1] = << call.address + i * arch.pointersize,
                                        arch.pointersize >>
              /\ call.values[i + 1] =
                    PointerAt(mem, call.address + i * arch.pointersize,
                              arch.pointersize)

\* The format "%%" marshals two values, the one at the lower address first.
C4_Witness ==
    /\ call.op = "va_list"
    /\ call.format = L(<< "%", "%" >>)
    /\ call.err = NoErr
    /\ Len(call.values) = 2
    /\ call.values[1] = PointerAt(mem, call.address, arch.pointersize)
    /\ call.values[1] # call.values[2]

\* C5: the text read_wstring returns holds no NUL character, and that text is
\* what the statistics collector is given.
C5_NoNul ==
    (call.op = "read_wstring" /\ call.err = NoErr) =>
        /\ \A i \in DOMAIN call.ret : call.ret[i] # 0
        /\ stats = << call.ret >>

\* The bytes before the terminator hold zero bytes and a text comes back.
C5_Witness ==
    /\ call.op = "read_wstring"
    /\ call.err = NoErr
    /\ mem[call.address] = 0
    /\ call.ret = L(<< "h" >>)
    /\ stats = << L(<< "h" >>) >>

---------------------------------------------------------------------------
(* Claims about the tracer, under SpecTrace *)

\* The line of a call, put together from its parts; render(name, value) is how
\* one argument is shown.
TraceLine(render(_, _)) ==
    LET prefix == IF verbose >= QL_VERBOSE.DEBUG
                  THEN HexAltZeroPad(call.address, arch.bits \div 4 + 2) \o L(<< ":", " " >>)
                  ELSE << >>
        name == IF StartsWith(call.fname, L(<< "h", "o", "o", "k", "_" >>))
                THEN SubSeq(call.fname, 6, Len(call.fname)) ELSE call.fname
        shown == [i \in DOMAIN call.pargs |-> render(call.pargs[i][1], call.pargs[i][2])]
        result == IF call.retarg.t = "none" THEN << >>
                  ELSE IF call.retarg.t = "int"
                       THEN L(<< " ", "=", " " >>) \o HexAlt(call.retarg.n)
                       ELSE L(<< " ", "=", " " >>) \o call.retarg.s
        suffix == IF call.passthru THEN L(<< " ", "(", "P", "A", "S", "S", "T", "H", "R", "U", ")" >>) ELSE << >>
    IN  prefix \o name \o L(<< "(" >>) \o Join(shown, L(<< ",", " " >>)) \o L(<< ")" >>)
               \o result \o suffix

\* An argument as C6 has it: bare when its name starts with the ellipsis prefix,
\* "name = value" otherwise.
RenderByPrefix(name, value) ==
    IF StartsWith(name, ELLIPSIS_PREF) THEN value
    ELSE name \o L(<< " ", "=", " " >>) \o value

\* An argument as the code shows it: bare also when its name is empty.
RenderByPrefixOrEmpty(name, value) ==
    IF StartsWith(name, ELLIPSIS_PREF) \/ name = << >> THEN value
    ELSE name \o L(<< " ", "=", " " >>) \o value

\* C6: the line print_function emits is the address prefix (at DEBUG and above
\* only), the name without a leading "hook_", the arguments in parentheses and
\* joined by ", ", each bare when its name starts with "__qlva_" and
\* "name = value" otherwise, " = <ret>" when ret is not None (an integer in
\* hexadecimal), and " (PASSTHRU)" when passthru is set.
C6_Line ==
    call.op = "print_function" =>
        /\ Len(log) = 1
        /\ log[1].line = TraceLine(RenderByPrefix)

\* C6, amended: an argument is also rendered bare when its name is empty.
C6_LineEmptyNameBare ==
    call.op = "print_function" =>
        /\ Len(log) = 1
        /\ log[1].line = TraceLine(RenderByPrefixOrEmpty)

\* The call of the example, below DEBUG, gives "strcpy(dst = 0x2000, 0x3000)".
C6_Witness ==
    /\ call.op = "print_function"
    /\ verbose < QL_VERBOSE.DEBUG
    /\ call.address = 16400
    /\ call.fname = L(<< "h", "o", "o", "k", "_", "s", "t", "r", "c", "p", "y" >>)
    /\ call.pargs = << << L(<< "d", "s", "t" >>), L(<< "0", "x", "2", "0", "0", "0" >>) >>,
                       << L(<< "_", "_", "q", "l", "v", "a", "_", "0" >>), L(<< "0", "x", "3", "0", "0", "0" >>) >> >>
    /\ call.retarg = NoneV
    /\ ~call.passthru
    /\ log[1].line = L(<< "s", "t", "r", "c", "p", "y", "(", "d", "s", "t", " ", "=", " ", "0", "x", "2", "0", "0", "0", ",", " ", "0", "x", "3", "0", "0", "0", ")" >>)

---------------------------------------------------------------------------
(* Claims about the interpreter and the sinks, under SpecFormat *)

\* The step is a call of sprintf or of printf.
SinkCall == call'.op \in { "sprintf", "printf" }

\* The string the reader of the given width finds at address in m.
Reader(m, address, wstring) ==
    IF wstring THEN read_wstring(m, << >>, address)
    ELSE read_cstring(m, << >>, address)

\* The terminator of the given width.
Terminator(wstring) == IF wstring THEN << 0, 0 >> ELSE << 0 >>

\* The bytes of a text in the encoding of the given width.
TextBytesOf(text, wstring) ==
    Encode(text, IF wstring THEN "utf-16le" ELSE "utf-8").bytes

\* Memory m with data written at address.
Written(m, address, data) ==
    [a \in Addrs |-> IF a >= address /\ a < address + Len(data)
                     THEN data[a - address + 1] ELSE m[a]]

\* Memory holds, at address, the text and its terminator in the encoding of the
\* given width.
HoldsText(m, address, text, wstring) ==
    LET data == TextBytesOf(text, wstring) \o Terminator(wstring)
    IN  Mapped(address, Len(data)) /\ BytesAt(m, address, Len(data)) = data

C2_Step ==
    (call'.op = "sprintf" /\ call'.err = NoErr) =>
        LET data == TextBytesOf(call'.out, call'.wstring) \o Terminator(call'.wstring)
        IN  /\ call'.writes = << [address |-> call'.address, data |-> data] >>
            /\ mem' = Written(mem, call'.address, data)
            /\ call'.count = Len(call'.out)
            /\ ( /\ call'.format = L(<< "%", "s" >>)
                 /\ Len(call'.args) = 1
                 /\ HoldsText(mem, call'.args[1].n, L(<< "h", "i" >>), call'.wstring) )
               => ( call'.out = L(<< "h", "i" >>) /\ call'.count = 2 )

\* C2: a sprintf that returns makes one memory write, at buff, of the
\* interpreted text followed by the terminator of the encoding wstring chooses,
\* and returns the number of characters of the text; for "%s" and a pointer to
\* "hi" the text is "hi" and the value returned is 2.
C2_OneWrite == [][C2_Step]_vars

\* sprintf(0, "%s", [p]) with "hi" at p: "hi" and a zero byte are at 0, 2 returned.
C2_Witness ==
    /\ call.op = "sprintf"
    /\ call.err = NoErr
    /\ call.format = L(<< "%", "s" >>)
    /\ ~call.wstring
    /\ call.out = L(<< "h", "i" >>)
    /\ call.count = 2
    /\ call.writes = << [address |-> call.address, data |-> << 104, 105, 0 >>] >>
    /\ BytesAt(mem, call.address, 3) = << 104, 105, 0 >>

\* C3: after a sprintf that returns, the reader of the matching width, applied
\* to the buffer address, returns the interpreted text.
C3_RoundTrip ==
    (call.op = "sprintf" /\ call.err = NoErr) =>
        /\ Reader(mem, call.address, call.wstring).err = NoErr
        /\ Reader(mem, call.address, call.wstring).ret = call.out

\* The position of the k-th "%" of a format, k from 1.
NthPercent(format, k) ==
    CHOOSE p \in PercentPositions(format) :
        Cardinality({ q \in PercentPositions(format) : q <= p }) = k

\* The i-th segment following a "%", i from 0, begins with "s".
SlotIsString(format, i) ==
    /\ i < Cardinality(PercentPositions(format))
    /\ LET p == NthPercent(format, i + 1)
       IN  p < Len(format) /\ format[p + 1] = Ord("s")

\* Slot i is the first whose string cannot be read: the slots before it that
\* ask for a string have one, and theirs can be read.
FirstFailingSlot(m, format, args, wstring, i) ==
    /\ SlotIsString(format, i)
    /\ i < Len(args)
    /\ Reader(m, args[i + 1].n, wstring).err # NoErr
    /\ \A j \in 0..(i - 1) :
          SlotIsString(format, j) =>
             (j < Len(args) /\ Reader(m, args[j + 1].n, wstring).err = NoErr)

C7_Step ==
    SinkCall =>
        \A i \in 0..(Len(call'.args) - 1) :
            FirstFailingSlot(mem, call'.format, call'.args, call'.wstring, i) =>
                LET e == Reader(mem, call'.args[i + 1].n, call'.wstring).err
                    last == call'.reads[Len(call'.reads)]
                IN  /\ e.kind = "MemoryAccessError"
                    /\ call'.err = e
                    /\ last = << e.addr, e.len >>
                    /\ Cardinality({ k \in DOMAIN call'.reads : call'.reads[k] = last }) = 1
                    /\ call'.writes = << >>
                    /\ mem' = mem
                    /\ stdout' = stdout

\* C7: when a memory read fails while a %s argument is resolved, the error of
\* that read is what the call raises, the read is made once, and the sink writes
\* nothing: memory and standard output are as before.
C7_ReadErrorPropagates == [][C7_Step]_vars

\* "%s%s": the first string was read and logged, the read of the second failed.
C7_Witness ==
    /\ call.op = "sprintf"
    /\ call.format = L(<< "%", "s", "%", "s" >>)
    /\ call.err.kind = "MemoryAccessError"
    /\ call.err.msg = "read"
    /\ Len(stats) = 1
    /\ call.writes = << >>

\* The number of arguments differs from the number the format consumes.
ArityMismatch == Len(call'.args) # Directives(call'.format, 1)

NoOutput == call'.writes = << >> /\ mem' = mem /\ stdout' = stdout

\* The errors the % operator raises.
FormattingErrors == { "TypeError", "ValueError" }

\* C8: a call whose number of arguments differs from the number the format
\* consumes raises a formatting error and produces no output.
C8_FormattingError ==
    [][(SinkCall /\ ArityMismatch) =>
          (call'.err.kind \in FormattingErrors /\ NoOutput)]_vars

\* C8, amended: such a call raises an error, which is the formatting error
\* unless the %s resolution pass fails first with its index error or with the
\* error of a memory read, and produces no output.
C8_ErrorAndNoOutput ==
    [][(SinkCall /\ ArityMismatch) =>
          ( /\ call'.err.kind \in FormattingErrors
                   \cup { "IndexError", "MemoryAccessError" }
            /\ call'.err.kind = "MemoryAccessError" => call'.err.msg = "read"
            /\ call'.err.kind \notin FormattingErrors => ~call'.resolved
            /\ NoOutput )]_vars

\* printf("%%") with the two arguments va_list marshals for "%%": a formatting
\* error and nothing on standard output.
C8_Witness ==
    /\ call.op = "printf"
    /\ call.format = L(<< "%", "%" >>)
    /\ call.args = << IntV(PointerAt(mem, 0, arch.pointersize)),
                      IntV(PointerAt(mem, arch.pointersize, arch.pointersize)) >>
    /\ call.err.kind = "TypeError"
    /\ stdout = << >>

RECURSIVE ResolvedFrom(_, _, _)
\* The strings of the slots from i on that ask for a string, in slot order.
ResolvedFrom(format, argsOut, i) ==
    IF i >= Len(argsOut) THEN << >>
    ELSE (IF SlotIsString(format, i) THEN << argsOut[i + 1].s >> ELSE << >>)
            \o ResolvedFrom(format, argsOut, i + 1)

C9_Step ==
    (SinkCall /\ call'.resolved) =>
        /\ Len(call'.argsOut) = Len(call'.args)
        /\ \A i \in 0..(Len(call'.args) - 1) :
              call'.argsOut[i + 1] =
                 IF SlotIsString(call'.format, i)
                 THEN StrV(Reader(mem, call'.args[i + 1].n, call'.wstring).ret)
                 ELSE call'.args[i + 1]
        /\ stats' = stats \o ResolvedFrom(call'.format, call'.argsOut, 0)

\* C9: when the %s resolution pass completes, every slot whose segment begins
\* with "s" holds the string read at the address it held, read with the reader
\* wstring chooses and in increasing slot order; every other slot holds its raw
\* value, and the list is as long as before.
C9_ResolutionPass == [][C9_Step]_vars

\* "%d%s": the first slot is still the raw value, the second is the string.
C9_Witness ==
    /\ call.op = "printf"
    /\ call.resolved
    /\ call.format = L(<< "%", "d", "%", "s" >>)
    /\ call.args = << IntV(1), IntV(0) >>
    /\ call.argsOut[1] = IntV(1)
    /\ call.argsOut[2].t = "str"
    /\ call.argsOut[2].s # << >>

\* The bytes of memory outside the buffer sprintf wrote are as before.
OnlyBufferWritten ==
    \A a \in Addrs :
        mem'[a] # mem[a] =>
            /\ call'.writes # << >>
            /\ a >= call'.address
            /\ a < call'.address + Len(call'.writes[1].data)

\* C10: sprintf changes the memory bytes written at the buffer and nothing
\* else; printf changes the standard output and nothing else.
C10_SinkOnly ==
    [][ /\ call'.op = "sprintf" =>
              ( /\ OnlyBufferWritten
                /\ UNCHANGED << stdout, stats, log, verbose, arch >> )
        /\ call'.op = "printf" =>
              UNCHANGED << mem, stats, log, verbose, arch >> ]_vars

\* C10, amended: besides its own target a sink changes the statistics
\* collector, to which the strings read for the %s slots are appended, and the
\* %s slots of the caller's argument list; sprintf writes nothing to standard
\* output and printf nothing to memory.
C10_SinkAndStatistics ==
    [][ /\ call'.op = "sprintf" =>
              ( /\ OnlyBufferWritten
                /\ UNCHANGED << stdout, log, verbose, arch >> )
        /\ call'.op = "printf" =>
              UNCHANGED << mem, log, verbose, arch >>
        /\ SinkCall =>
              ( /\ Len(call'.argsOut) = Len(call'.args)
                /\ \A i \in 0..(Len(call'.args) - 1) :
                      call'.argsOut[i + 1] # call'.args[i + 1]
                         => SlotIsString(call'.format, i)
                /\ Len(stats') >= Len(stats)
                /\ SubSeq(stats', 1, Len(stats)) = stats
                /\ \A k \in (Len(stats) + 1)..Len(stats') :
                      \E i \in 0..(Len(call'.args) - 1) :
                         /\ SlotIsString(call'.format, i)
                         /\ stats'[k] = Reader(mem, call'.args[i + 1].n,
                                               call'.wstring).ret ) ]_vars

\* A sprintf of "%s" that returned: the string was logged, the buffer written,
\* nothing is on standard output.
C10_Witness ==
    /\ call.op = "sprintf"
    /\ call.err = NoErr
    /\ call.format = L(<< "%", "s" >>)
    /\ Len(stats) = 1
    /\ call.writes # << >>
    /\ stdout = << >>

====
